---- MODULE Spec2Model ----
(***************************************************************************)
(* Model of liquidctl/driver/rgb_fusion2.py: the RGB Fusion 2.0 driver.    *)
(* The driver's public operations (initialize, get_status, set_color,      *)
(* reset_all_channels) are run one at a time against a HID transport that  *)
(* records every call made to it; each transport write or read may fail.   *)
(* Python list offsets are 0-based; At(s, i) reads offset i of a list.     *)
(***************************************************************************)
EXTENDS Integers, Sequences, FiniteSets, TLC

VARIABLES op, pc, args, data, pending, calls, warnings, result, response, ret

vars == <<op, pc, args, data, pending, calls, warnings, result, response, ret>>

(* ------------------------------ bounds --------------------------------- *)

\* longest list of colours a caller passes to set_color
MaxColors == 2

(* ---------------------------- module constants -------------------------- *)

REPORT_ID == 204
INIT_CMD == 96
READ_LENGTH == 64
WRITE_LENGTH == 64

None == <<>>

\* _COLOR_CHANNELS, a dict: its items in insertion order
COLOR_CHANNELS ==
    << <<"led1", <<32, 1>> >>,
       <<"led2", <<33, 2>> >>,
       <<"led3", <<34, 4>> >>,
       <<"led4", <<35, 8>> >>,
       <<"led5", <<36, 16>> >>,
       <<"led6", <<37, 32>> >>,
       <<"led7", <<38, 64>> >> >>

PULSE_SPEEDS ==
    ("slowest" :> <<64, 6, 64, 6, 32, 3>>) @@
    ("slower" :> <<120, 5, 120, 5, 188, 2>>) @@
    ("normal" :> <<176, 4, 176, 4, 244, 1>>) @@
    ("faster" :> <<232, 3, 232, 3, 244, 1>>) @@
    ("fastest" :> <<132, 3, 132, 3, 194, 1>>) @@
    ("ludicrous" :> <<32, 3, 32, 3, 144, 1>>)

FLASH_SPEEDS ==
    ("slowest" :> <<100, 0, 100, 0, 96, 9>>) @@
    ("slower" :> <<100, 0, 100, 0, 144, 8>>) @@
    ("normal" :> <<100, 0, 100, 0, 208, 7>>) @@
    ("faster" :> <<100, 0, 100, 0, 8, 7>>) @@
    ("fastest" :> <<100, 0, 100, 0, 64, 6>>) @@
    ("ludicrous" :> <<100, 0, 100, 0, 120, 5>>)

\* the second key is 'slower ' (with a trailing blank) in the source
DOUBLE_FLASH_SPEEDS ==
    ("slowest" :> <<100, 0, 100, 0, 40, 10>>) @@
    ("slower " :> <<100, 0, 100, 0, 96, 9>>) @@
    ("normal" :> <<100, 0, 100, 0, 144, 8>>) @@
    ("faster" :> <<100, 0, 100, 0, 208, 7>>) @@
    ("fastest" :> <<100, 0, 100, 0, 8, 7>>) @@
    ("ludicrous" :> <<100, 0, 100, 0, 64, 6>>)

COLOR_CYCLE_SPEEDS ==
    ("slowest" :> <<120, 5, 176, 4, 0, 0>>) @@
    ("slower" :> <<126, 4, 26, 4, 0, 0>>) @@
    ("normal" :> <<82, 3, 238, 2, 0, 0>>) @@
    ("faster" :> <<248, 2, 148, 2, 0, 0>>) @@
    ("fastest" :> <<38, 2, 194, 1, 0, 0>>) @@
    ("ludicrous" :> <<204, 1, 104, 1, 0, 0>>)

ColorMode(name, value, pulses, flash_count, cycle_count, max_brightness, takes_color, speed_values) ==
    [name |-> name, value |-> value, pulses |-> pulses,
     flash_count |-> flash_count, cycle_count |-> cycle_count,
     max_brightness |-> max_brightness, takes_color |-> takes_color,
     speed_values |-> speed_values]

COLOR_MODES ==
    ("off" :> ColorMode("off", 1, FALSE, 0, 0, 0, FALSE, None)) @@
    ("static" :> ColorMode("static", 1, FALSE, 0, 0, 90, TRUE, None)) @@
    ("pulse" :> ColorMode("pulse", 2, TRUE, 0, 0, 90, TRUE, PULSE_SPEEDS)) @@
    ("flash" :> ColorMode("flash", 3, TRUE, 1, 0, 100, TRUE, FLASH_SPEEDS)) @@
    ("double-flash" :>
        ColorMode("double-flash", 3, TRUE, 2, 0, 100, TRUE, DOUBLE_FLASH_SPEEDS)) @@
    ("color-cycle" :>
        ColorMode("color-cycle", 4, FALSE, 0, 7, 100, FALSE, COLOR_CYCLE_SPEEDS))

(* ------------------------------ helpers --------------------------------- *)

\* offset i (0-based) of a Python list
At(s, i) == s[i + 1]

\* the Python slice s[a:b]
Slice(s, a, b) ==
    LET hi == IF b < Len(s) THEN b ELSE Len(s)
    IN  IF a >= hi THEN <<>> ELSE [i \in 1..(hi - a) |-> s[a + i]]

Zeros(n) == [i \in 1..n |-> 0]

\* str.lower() on the names callers pass
Lower(s) ==
    CASE s = "SYNC" -> "sync"
      [] s = "Led3" -> "led3"
      [] s = "Static" -> "static"
      [] s = "PULSE" -> "pulse"
      [] s = "Slower" -> "slower"
      [] s = "FASTEST" -> "fastest"
      [] OTHER -> s

\* bool(x) of a dict or None
Truthy(d) == DOMAIN d # {}

\* int(b) of a bool
IntOf(b) == IF b THEN 1 ELSE 0

\* liquidctl.util.clamp
clamp(value, clo, chi) ==
    LET lo == IF value < chi THEN value ELSE chi
    IN  IF lo > clo THEN lo ELSE clo

\* dict.values() of _COLOR_CHANNELS, in insertion order
ChannelValues == [i \in 1..Len(COLOR_CHANNELS) |-> COLOR_CHANNELS[i][2]]

\* name in _COLOR_CHANNELS
HasChannel(name) == \E i \in 1..Len(COLOR_CHANNELS) : COLOR_CHANNELS[i][1] = name

\* _COLOR_CHANNELS[name]
ChannelAddr(name) ==
    COLOR_CHANNELS[CHOOSE i \in 1..Len(COLOR_CHANNELS) : COLOR_CHANNELS[i][1] = name][2]

(* ------------------------- the transport's record ----------------------- *)

WriteCall(bytes, ok) == [kind |-> "write", data |-> bytes, ok |-> ok]
ReadCall(report_id, length, ok) == [kind |-> "read", data |-> <<report_id, length>>, ok |-> ok]
ReleaseCall == [kind |-> "release", data |-> <<>>, ok |-> TRUE]

\* _send_feature_report: the bytes handed to device.send_feature_report
SendFeatureReport(d) == d \o Zeros(IF WRITE_LENGTH > Len(d) THEN WRITE_LENGTH - Len(d) ELSE 0)

\* _execute_report: the list it sends
ExecuteReport == <<REPORT_ID, 40, 255>>

(* ------------------------------ set_color ------------------------------- *)

\* variant: the colour is kept in the caller's (r, g, b) order
SingleColor_RGB(m, colors) ==
    IF m.takes_color
    THEN <<colors[1][1], colors[1][2], colors[1][3]>>
    ELSE <<0, 0, 0>>

\* variant: the first colour is encoded whenever one was passed
SingleColor_Always(m, colors) ==
    IF colors # <<>>
    THEN <<colors[1][3], colors[1][2], colors[1][1]>>
    ELSE <<0, 0, 0>>

\* (b, g, r) of the first colour, or zeros for a mode that takes none
SingleColor(m, colors) ==
    IF m.takes_color
    THEN <<colors[1][3], colors[1][2], colors[1][1]>>
    ELSE <<0, 0, 0>>

\* the colours left in the iterator after the mode took its own
Remaining(m, colors) == Len(colors) - (IF m.takes_color THEN 1 ELSE 0)

\* variant: one warning for each dropped colour
WarningsEmitted_PerColor(remaining) == remaining

\* the number of LOGGER.warning calls
WarningsEmitted(remaining) == IF remaining # 0 THEN 1 ELSE 0

\* the list `data` before the address is filled in; speed is already lowered
SettingsData(m, single_color, speed) ==
    <<REPORT_ID, 0, 0, 0, 0, 0, 0, 0,
      0, 0, 0, m.value, clamp(100, 0, m.max_brightness), 0>>
    \o single_color
    \o <<0, 0, 0, 0, 0>>
    \o (IF Truthy(m.speed_values) THEN m.speed_values[speed] ELSE <<0, 0, 0, 0, 0, 0>>)
    \o <<0, 0, m.cycle_count, IntOf(m.pulses), m.flash_count>>

\* variant: 'sync' walks the table from its last entry to its first
SelectedChannels_Reversed(channel) ==
    IF channel = "sync"
    THEN [i \in 1..Len(ChannelValues) |-> ChannelValues[Len(ChannelValues) + 1 - i]]
    ELSE <<ChannelAddr(channel)>>

\* selected_channels; channel is already lowered
SelectedChannels(channel) ==
    IF channel = "sync" THEN ChannelValues ELSE <<ChannelAddr(channel)>>

\* data[1:3] = addr1, addr2
WithAddress(d, addr) ==
    [i \in 1..Len(d) |-> IF i = 2 THEN addr[1] ELSE IF i = 3 THEN addr[2] ELSE d[i]]

\* set_color up to the loop: what it raises, what it logs, what it built
PrepareSetColor(channel, mode, colors, speed) ==
    LET lmode == Lower(mode)
        lchannel == Lower(channel)
        lspeed == Lower(speed)
        Rejected(e, w) == [raise |-> e, warnings |-> w, data |-> <<>>, selected |-> <<>>]
    IN  IF lmode \notin DOMAIN COLOR_MODES THEN Rejected("KeyError", 0)
        ELSE LET m == COLOR_MODES[lmode]
             IN  IF m.takes_color /\ colors = <<>> THEN Rejected("ValueError", 0)
                 ELSE LET w == WarningsEmitted(Remaining(m, colors))
                      IN  IF Truthy(m.speed_values) /\ lspeed \notin DOMAIN m.speed_values
                          THEN Rejected("KeyError", w)
                          ELSE IF lchannel # "sync" /\ ~HasChannel(lchannel)
                          THEN Rejected("KeyError", w)
                          ELSE [raise |-> "none", warnings |-> w,
                                data |-> SettingsData(m, SingleColor(m, colors), lspeed),
                                selected |-> SelectedChannels(lchannel)]

(* ------------------------------ initialize ------------------------------ *)

\* variant: only the report id of the response is asserted
HandshakeCheck_IdOnly(d) ==
    IF Len(d) < 1 THEN "IndexError"
    ELSE IF At(d, 0) # REPORT_ID THEN "AssertionError"
    ELSE "none"

\* the assert of initialize; IndexError when the list is too short to index
HandshakeCheck(d) ==
    IF Len(d) < 1 THEN "IndexError"
    ELSE IF At(d, 0) # REPORT_ID THEN "AssertionError"
    ELSE IF Len(d) < 2 THEN "IndexError"
    ELSE IF At(d, 1) # 1 THEN "AssertionError"
    ELSE "none"

\* the offsets of d, from start on, that hold value v
IndexesOf(d, v, start) == {i \in start..(Len(d) - 1) : At(d, i) = v}

\* str(bytes(b), 'ascii', errors='ignore'), as the list of character codes
AsciiIgnore(b) == SelectSeq(b, LAMBDA c : c < 128)

\* the part of initialize after the assert: what it raises and returns
ParseInit(d) ==
    IF IndexesOf(d, 0, 12) = {}
    THEN [raise |-> "ValueError", value |-> <<>>]
    ELSE LET null == CHOOSE i \in IndexesOf(d, 0, 12) :
                        \A j \in IndexesOf(d, 0, 12) : i <= j
         IN  [raise |-> "none",
              value |-> << <<"Hardware name", AsciiIgnore(Slice(d, 12, null))>>,
                           <<"Firmware version", Slice(d, 4, 8)>>,
                           <<"LED channnels", At(d, 3)>> >>]

(* --------------------------- the callers' inputs ------------------------ *)

Channels == {"led1", "led2", "led3", "led4", "led5", "led6", "led7",
             "sync", "SYNC", "Led3", "led9"}

Modes == {"off", "static", "pulse", "flash", "double-flash", "color-cycle",
          "Static", "PULSE", "rainbow"}

Speeds == {"slowest", "slower", "normal", "faster", "fastest", "ludicrous",
           "Slower", "FASTEST", "slower ", "warp"}

\* (red, green, blue) triples
ColorValues == {<<255, 0, 0>>, <<10, 20, 30>>}

ColorLists == UNION {[1..n -> ColorValues] : n \in 0..MaxColors}

\* an init response of the device, READ_LENGTH bytes long
InitResponse(id, status, name, fill) ==
    LET head == <<id, status, 0, 7, 1, 0, 10, 0, 0, 0, 0, 0>> \o name
    IN  head \o [i \in 1..(READ_LENGTH - Len(head)) |-> fill]

\* what the transport may return from the read of initialize
Responses ==
    {InitResponse(id, status, name, fill) :
        id \in {REPORT_ID, 0}, status \in {1, 0},
        name \in {<<73, 84, 69>>, <<73, 200, 69>>, <<>>}, fill \in {0, 255}}
    \cup {<<>>, <<REPORT_ID>>}

\* nothing was returned to the caller (yet, or because the call raised)
NoReturn == [returned |-> FALSE, value |-> <<>>]

Returned(v) == [returned |-> TRUE, value |-> v]

NoArgs == [channel |-> "", mode |-> "", colors |-> <<>>, speed |-> ""]

(* -------------------------------- states -------------------------------- *)

Init ==
    /\ op = "idle"
    /\ pc = "idle"
    /\ args = NoArgs
    /\ data = <<>>
    /\ pending = <<>>
    /\ calls = <<>>
    /\ warnings = 0
    /\ result = "none"
    /\ response = <<>>
    /\ ret = NoReturn

\* variant: the whole body sits in a try/finally that releases the device
SetColorCall_ReleaseOnReject(channel, mode, colors, speed) ==
    /\ op = "idle"
    /\ LET p == PrepareSetColor(channel, mode, colors, speed)
       IN  /\ op' = "set_color"
           /\ args' = [channel |-> channel, mode |-> mode,
                       colors |-> colors, speed |-> speed]
           /\ warnings' = p.warnings
           /\ data' = p.data
           /\ pending' = p.selected
           /\ IF p.raise = "none"
              THEN pc' = "loop" /\ result' = "none" /\ UNCHANGED calls
              ELSE pc' = "done" /\ result' = p.raise
                   /\ calls' = Append(calls, ReleaseCall)
    /\ UNCHANGED <<response, ret>>

\* the caller enters set_color: everything up to the loop over the channels
SetColorCall(channel, mode, colors, speed) ==
    /\ op = "idle"
    /\ LET p == PrepareSetColor(channel, mode, colors, speed)
       IN  /\ op' = "set_color"
           /\ args' = [channel |-> channel, mode |-> mode,
                       colors |-> colors, speed |-> speed]
           /\ warnings' = p.warnings
           /\ data' = p.data
           /\ pending' = p.selected
           /\ IF p.raise = "none"
              THEN pc' = "loop" /\ result' = "none"
              ELSE pc' = "done" /\ result' = p.raise
    /\ UNCHANGED <<calls, response, ret>>

\* one turn of the loop: fill in the address and send the report
SetColorWrite(ok) ==
    /\ op = "set_color" /\ pc = "loop" /\ pending # <<>>
    /\ data' = WithAddress(data, Head(pending))
    /\ calls' = Append(calls, WriteCall(SendFeatureReport(data'), ok))
    /\ IF ok
       THEN pending' = Tail(pending) /\ UNCHANGED <<pc, result>>
       ELSE pc' = "done" /\ result' = "OSError" /\ UNCHANGED pending
    /\ UNCHANGED <<op, args, warnings, response, ret>>

\* after the loop: _execute_report()
SetColorExecute(ok) ==
    /\ op = "set_color" /\ pc = "loop" /\ pending = <<>>
    /\ calls' = Append(calls, WriteCall(SendFeatureReport(ExecuteReport), ok))
    /\ IF ok
       THEN pc' = "release" /\ UNCHANGED result
       ELSE pc' = "done" /\ result' = "OSError"
    /\ UNCHANGED <<op, args, data, pending, warnings, response, ret>>

\* self.device.release(), then set_color returns
SetColorRelease ==
    /\ op = "set_color" /\ pc = "release"
    /\ calls' = Append(calls, ReleaseCall)
    /\ pc' = "done"
    /\ result' = "ok"
    /\ UNCHANGED <<op, args, data, pending, warnings, response, ret>>

\* the caller enters initialize: the init command is sent
InitializeSend(ok) ==
    /\ op = "idle"
    /\ op' = "initialize"
    /\ calls' = Append(calls, WriteCall(SendFeatureReport(<<REPORT_ID, INIT_CMD>>), ok))
    /\ IF ok
       THEN pc' = "read" /\ UNCHANGED result
       ELSE pc' = "done" /\ result' = "OSError"
    /\ UNCHANGED <<args, data, pending, warnings, response, ret>>

\* data = self._get_feature_report(_REPORT_ID)
InitializeRead(ok, resp) ==
    /\ op = "initialize" /\ pc = "read"
    /\ calls' = Append(calls, ReadCall(REPORT_ID, READ_LENGTH, ok))
    /\ IF ok
       THEN pc' = "release" /\ response' = resp /\ UNCHANGED result
       ELSE pc' = "done" /\ result' = "OSError" /\ UNCHANGED response
    /\ UNCHANGED <<op, args, data, pending, warnings, ret>>

\* self.device.release()
InitializeRelease ==
    /\ op = "initialize" /\ pc = "release"
    /\ calls' = Append(calls, ReleaseCall)
    /\ pc' = "check"
    /\ UNCHANGED <<op, args, data, pending, warnings, result, response, ret>>

\* the assert on the response, then the parsing and the return
InitializeParse ==
    /\ op = "initialize" /\ pc = "check"
    /\ pc' = "done"
    /\ LET h == HandshakeCheck(response)
       IN  IF h # "none"
           THEN result' = h /\ UNCHANGED ret
           ELSE LET p == ParseInit(response)
                IN  IF p.raise # "none"
                    THEN result' = p.raise /\ UNCHANGED ret
                    ELSE result' = "ok" /\ ret' = Returned(p.value)
    /\ UNCHANGED <<op, args, data, pending, calls, warnings, response>>

\* get_status returns an empty list
GetStatus ==
    /\ op = "idle"
    /\ op' = "get_status"
    /\ pc' = "done"
    /\ result' = "ok"
    /\ ret' = Returned(<<>>)
    /\ UNCHANGED <<args, data, pending, calls, warnings, response>>

\* variant: the second byte of the address pair is sent instead of the first
ResetReport_SecondByte(addr) == <<REPORT_ID, addr[2], 0>>

\* the report reset_all_channels sends for one channel address
ResetReport(addr) == <<REPORT_ID, addr[1], 0>>

\* the caller enters reset_all_channels: the loop starts over the addresses
ResetCall ==
    /\ op = "idle"
    /\ op' = "reset_all_channels"
    /\ pc' = "loop"
    /\ pending' = ChannelValues
    /\ UNCHANGED <<args, data, calls, warnings, result, response, ret>>

\* one turn of the loop of reset_all_channels
ResetWrite(ok) ==
    /\ op = "reset_all_channels" /\ pc = "loop" /\ pending # <<>>
    /\ calls' = Append(calls, WriteCall(SendFeatureReport(ResetReport(Head(pending))), ok))
    /\ IF ok
       THEN pending' = Tail(pending) /\ UNCHANGED <<pc, result>>
       ELSE pc' = "done" /\ result' = "OSError" /\ UNCHANGED pending
    /\ UNCHANGED <<op, args, data, warnings, response, ret>>

\* after the loop: _execute_report(), then reset_all_channels returns
ResetExecute(ok) ==
    /\ op = "reset_all_channels" /\ pc = "loop" /\ pending = <<>>
    /\ calls' = Append(calls, WriteCall(SendFeatureReport(ExecuteReport), ok))
    /\ pc' = "done"
    /\ result' = IF ok THEN "ok" ELSE "OSError"
    /\ UNCHANGED <<op, args, data, pending, warnings, response, ret>>

\* the operation has ended; the caller (and the recording transport) start over
Return ==
    /\ pc = "done"
    /\ op' = "idle"
    /\ pc' = "idle"
    /\ args' = NoArgs
    /\ data' = <<>>
    /\ pending' = <<>>
    /\ calls' = <<>>
    /\ warnings' = 0
    /\ result' = "none"
    /\ response' = <<>>
    /\ ret' = NoReturn

Next ==
    \/ /\ op = "idle"
       /\ \E channel \in Channels, mode \in Modes, colors \in ColorLists, speed \in Speeds :
             SetColorCall(channel, mode, colors, speed)
    \/ \E ok \in BOOLEAN : SetColorWrite(ok)
    \/ \E ok \in BOOLEAN : SetColorExecute(ok)
    \/ SetColorRelease
    \/ \E ok \in BOOLEAN : InitializeSend(ok)
    \/ /\ op = "initialize"
       /\ \E ok \in BOOLEAN, resp \in Responses : InitializeRead(ok, resp)
    \/ InitializeRelease
    \/ InitializeParse
    \/ GetStatus
    \/ ResetCall
    \/ \E ok \in BOOLEAN : ResetWrite(ok)
    \/ \E ok \in BOOLEAN : ResetExecute(ok)
    \/ Return

Spec == Init /\ [][Next]_vars

TypeOK ==
    /\ op \in {"idle", "initialize", "get_status", "set_color", "reset_all_channels"}
    /\ pc \in {"idle", "loop", "release", "read", "check", "done"}
    /\ result \in {"none", "ok", "KeyError", "ValueError", "OSError",
                   "AssertionError", "IndexError"}
    /\ warnings \in 0..MaxColors
    /\ \A i \in 1..Len(calls) : calls[i].kind \in {"write", "read", "release"}

(* ======================= properties of the driver ======================= *)

\* the 64 bytes of the execute command on the wire
ExecuteBytes == [i \in 1..64 |-> IF i = 1 THEN 204 ELSE IF i = 2 THEN 40
                                 ELSE IF i = 3 THEN 255 ELSE 0]

\* the 64 bytes of the init command on the wire
InitBytes == [i \in 1..64 |-> IF i = 1 THEN 204 ELSE IF i = 2 THEN 96 ELSE 0]

\* the address pair of the k-th channel of the table, led1 being the first
TableAddress(k) == <<31 + k, 2 ^ (k - 1)>>

LedNumber == [led1 |-> 1, led2 |-> 2, led3 |-> 3, led4 |-> 4,
              led5 |-> 5, led6 |-> 6, led7 |-> 7]

SixTiers == {"slowest", "slower", "normal", "faster", "fastest", "ludicrous"}

\* positions in the transport's record of the per-channel settings writes
SettingsWrites ==
    {i \in 1..Len(calls) : calls[i].kind = "write" /\ calls[i].data # ExecuteBytes}

SetColorDone == op = "set_color" /\ pc = "done"

\* C1: a set_color call that was accepted and met no transport failure made
\* exactly these transport calls, in this order: one settings write per
\* resolved channel address (seven for 'sync', in table order led1..led7, each
\* with its channel's address pair in bytes 1-2), one execute write
\* [0xCC, 0x28, 0xFF], one release; nothing after the execute but the release,
\* and no read.
Thm_C1_SetColorSequence ==
    (SetColorDone /\ result = "ok") =>
        LET ch == Lower(args.channel)
            targets == IF ch = "sync"
                       THEN [k \in 1..7 |-> TableAddress(k)]
                       ELSE <<TableAddress(LedNumber[ch])>>
            n == Len(targets)
        IN  /\ Len(calls) = n + 2
            /\ \A k \in 1..n :
                  /\ calls[k].kind = "write"
                  /\ calls[k].ok
                  /\ calls[k].data # ExecuteBytes
                  /\ Len(calls[k].data) = 64
                  /\ At(calls[k].data, 0) = 204
                  /\ <<At(calls[k].data, 1), At(calls[k].data, 2)>> = targets[k]
            /\ calls[n + 1] = [kind |-> "write", data |-> ExecuteBytes, ok |-> TRUE]
            /\ calls[n + 2].kind = "release"

\* C1 witness: a 'sync' call has returned after its nine transport calls
Wit_C1_SyncDone ==
    SetColorDone /\ result = "ok" /\ args.channel = "SYNC" /\ Len(calls) = 9

\* C2: whenever a set_color call has ended and it delivered at least one
\* per-channel settings write, an execute command was issued after its last
\* settings write.
Claim_C2_ExecuteAfterSettings ==
    (SetColorDone /\ \E i \in SettingsWrites : calls[i].ok) =>
        \E j \in 1..Len(calls) :
            /\ calls[j].kind = "write"
            /\ calls[j].data = ExecuteBytes
            /\ \A i \in SettingsWrites : i < j

\* C3: when initialize, set_color or reset_all_channels has ended after making
\* a transport write or read, its last transport call is release().
Claim_C3_ReleasedAtEnd ==
    (/\ op \in {"initialize", "set_color", "reset_all_channels"}
     /\ pc = "done"
     /\ \E i \in 1..Len(calls) : calls[i].kind \in {"write", "read"})
    => calls[Len(calls)].kind = "release"

\* C4: a set_color call rejected for an unknown mode, channel or speed
\* (KeyError) or for a missing colour (ValueError) has made no transport call:
\* no write, no read, no release.
Thm_C4_RejectedBeforeTransport ==
    (SetColorDone /\ result \in {"KeyError", "ValueError"}) => calls = <<>>

\* C4 witness: a call with a known channel and a colour was rejected for its
\* speed name, the last of the lookups
Wit_C4_UnknownSpeedRejected ==
    /\ SetColorDone /\ result = "KeyError"
    /\ args.mode = "pulse" /\ args.speed = "warp"
    /\ args.channel = "led1" /\ args.colors # <<>>

\* the response fails the handshake: byte 0 is not 0xCC or byte 1 is not 1
BadHandshake(r) == Len(r) < 2 \/ At(r, 0) # 204 \/ At(r, 1) # 1

\* C5: initialize makes one init write ([0xCC, 0x60] padded to 64 bytes), then
\* one read of report 0xCC, and no other write or read; when the response fails
\* the handshake, initialize ends with an error, returns nothing and has not
\* parsed the response.
Thm_C5_InitializeHandshake ==
    op = "initialize" =>
        /\ Len(calls) <= 3
        /\ Len(calls) >= 1 => calls[1].kind = "write" /\ calls[1].data = InitBytes
        /\ Len(calls) >= 2 =>
              calls[1].ok /\ calls[2].kind = "read" /\ calls[2].data = <<204, 64>>
        /\ Len(calls) >= 3 => calls[2].ok /\ calls[3].kind = "release"
        /\ (pc = "done" /\ result # "OSError") => Len(calls) = 3
        /\ (pc = "done" /\ Len(calls) = 3 /\ BadHandshake(response)) =>
              /\ result \in {"AssertionError", "IndexError"}
              /\ ret = NoReturn

\* C5 witness: a full-length response with status byte 0 was read and refused
Wit_C5_BadStatusRefused ==
    /\ op = "initialize" /\ pc = "done"
    /\ Len(response) = 64 /\ At(response, 0) = 204 /\ At(response, 1) = 0
    /\ result = "AssertionError"

\* C6: for every mode with a speed table and every speed name of the six tiers
\* in any letter case, a set_color call with a known channel and a colour
\* resolves the speed and completes (unless the transport fails).
Claim_C6_SpeedTotal ==
    (/\ SetColorDone
     /\ Lower(args.mode) \in {"pulse", "flash", "double-flash", "color-cycle"}
     /\ Lower(args.speed) \in SixTiers
     /\ Lower(args.channel) \in (DOMAIN LedNumber) \cup {"sync"}
     /\ args.colors # <<>>
     /\ result # "OSError")
    => result = "ok"

\* the bytes of w at offsets from..(from + n - 1)
Bytes(w, from, n) == [k \in 1..n |-> At(w, from + k - 1)]

\* the settings write w of the current call carries the fields of its mode,
\* first colour and speed at the given offsets and is zero elsewhere, the
\* address bytes 1-2 apart
SettingsLayout(w, colorAt, speedAt, cycleAt, pulseAt, flashAt) ==
    LET m == COLOR_MODES[Lower(args.mode)]
        c == args.colors[1]
        used == {0, 1, 2, 11, 12, cycleAt, pulseAt, flashAt}
                \cup (colorAt..(colorAt + 2)) \cup (speedAt..(speedAt + 5))
    IN  /\ Len(w) = 64
        /\ At(w, 0) = 204
        /\ At(w, 11) = m.value
        /\ At(w, 12) = (IF m.max_brightness < 100 THEN m.max_brightness ELSE 100)
        /\ Lower(args.mode) \in {"static", "pulse"} => At(w, 12) = 90
        /\ Bytes(w, colorAt, 3) =
              (IF m.takes_color THEN <<c[3], c[2], c[1]>> ELSE <<0, 0, 0>>)
        /\ Bytes(w, speedAt, 6) =
              (IF m.speed_values = None THEN <<0, 0, 0, 0, 0, 0>>
               ELSE m.speed_values[Lower(args.speed)])
        /\ At(w, cycleAt) = m.cycle_count
        /\ At(w, pulseAt) = (IF m.pulses THEN 1 ELSE 0)
        /\ At(w, flashAt) = m.flash_count
        /\ \A o \in (0..63) \ used : At(w, o) = 0

\* C7 as stated: every settings write of set_color has the mode code at offset
\* 11, the brightness at 12, the colour (blue, green, red) at 13-15, the speed
\* bytes at 21-26, the cycle count at 29, the pulse flag at 30 and the flash
\* count at 31, and is zero elsewhere except for the address bytes.
Orig_C7_LayoutAsStated ==
    op = "set_color" =>
        \A i \in SettingsWrites : SettingsLayout(calls[i].data, 13, 21, 29, 30, 31)

\* C7 amended: every settings write of set_color is 64 bytes with 0xCC at
\* offset 0, the mode code at 11, the brightness (100 clamped to the mode's
\* maximum) at 12, the colour (blue, green, red) at 14-16, the speed bytes at
\* 22-27, the cycle count at 30, the pulse flag at 31 and the flash count at
\* 32, and is zero elsewhere except for the address bytes 1-2.
Thm_C7_Layout ==
    op = "set_color" =>
        \A i \in SettingsWrites : SettingsLayout(calls[i].data, 14, 22, 30, 31, 32)

\* C7 witness: static red was written: 0, 0, 255 at offsets 14-16, brightness 90
Wit_C7_StaticRedWritten ==
    /\ op = "set_color" /\ args.mode = "static" /\ args.colors = << <<255, 0, 0>> >>
    /\ \E i \in SettingsWrites :
          /\ Bytes(calls[i].data, 14, 3) = <<0, 0, 255>>
          /\ At(calls[i].data, 12) = 90

\* C8: on every settings write, a mode that takes no colour (off, color-cycle)
\* has zero colour bytes whatever colours were passed, and a mode without a
\* speed table (off, static) has zero speed bytes whatever speed name was
\* passed; for such a mode the speed name never makes the call fail.
Thm_C8_DescriptorInvariant ==
    (op = "set_color" /\ Lower(args.mode) \in DOMAIN COLOR_MODES) =>
        LET lm == Lower(args.mode)
            m == COLOR_MODES[lm]
        IN  /\ ~m.takes_color <=> lm \in {"off", "color-cycle"}
            /\ m.speed_values = None <=> lm \in {"off", "static"}
            /\ \A i \in SettingsWrites :
                  /\ ~m.takes_color => Bytes(calls[i].data, 14, 3) = <<0, 0, 0>>
                  /\ m.speed_values = None =>
                        Bytes(calls[i].data, 22, 6) = <<0, 0, 0, 0, 0, 0>>
            /\ (/\ pc = "done"
                /\ m.speed_values = None
                /\ m.takes_color => args.colors # <<>>
                /\ Lower(args.channel) \in (DOMAIN LedNumber) \cup {"sync"})
               => result \in {"ok", "OSError"}

\* C8 witness: mode off was given a colour and an unknown speed name, and the
\* call went through
Wit_C8_OffWithColorAndOddSpeed ==
    /\ SetColorDone /\ result = "ok"
    /\ args.mode = "off" /\ args.colors # <<>> /\ args.speed = "warp"
    /\ SettingsWrites # {}

\* the 64 bytes reset_all_channels writes for the k-th channel of the table
ResetBytes(k) == [i \in 1..64 |-> IF i = 1 THEN 204 ELSE IF i = 2 THEN 31 + k ELSE 0]

\* C9: reset_all_channels writes one zero-value report per channel address in
\* table order led1..led7 (64 bytes: 0xCC, the channel's address byte, zeros),
\* then one execute write after the last of them; it reads nothing, and once a
\* write has failed it writes nothing more.
Thm_C9_ResetSequence ==
    op = "reset_all_channels" =>
        /\ Len(calls) <= 8
        /\ \A k \in 1..Len(calls) :
              /\ calls[k].kind = "write"
              /\ calls[k].data = (IF k <= 7 THEN ResetBytes(k) ELSE ExecuteBytes)
              /\ ~calls[k].ok => (k = Len(calls) /\ pc = "done" /\ result = "OSError")
        /\ (pc = "done" /\ result = "ok") => Len(calls) = 8

\* C9 witness: a reset has returned after its eight writes
Wit_C9_ResetDone ==
    op = "reset_all_channels" /\ pc = "done" /\ result = "ok" /\ Len(calls) = 8

\* C10: a set_color call given more colours than its mode consumes emits
\* exactly one warning and ends as the same call given only the consumed
\* colours (the first, or none) ends: the same rejection, or the same settings
\* writes, execute and release; a call given no extra colour emits no warning.
Thm_C10_ExtraColors ==
    (SetColorDone /\ Lower(args.mode) \in DOMAIN COLOR_MODES) =>
        LET m == COLOR_MODES[Lower(args.mode)]
            consumed == IF m.takes_color THEN 1 ELSE 0
            used == Slice(args.colors, 0, consumed)
            p == PrepareSetColor(args.channel, args.mode, used, args.speed)
            n == Len(p.selected)
        IN  /\ Len(args.colors) <= consumed => warnings = 0
            /\ Len(args.colors) > consumed =>
                  /\ warnings = 1
                  /\ p.warnings = 0
                  /\ p.raise # "none" => (result = p.raise /\ calls = <<>>)
                  /\ p.raise = "none" =>
                        /\ result \in {"ok", "OSError"}
                        /\ result = "ok" => Len(calls) = n + 2
                        /\ Len(calls) <= n + 2
                        /\ \A i \in 1..Len(calls) :
                              /\ i <= n =>
                                    calls[i].data =
                                        SendFeatureReport(WithAddress(p.data, p.selected[i]))
                              /\ i = n + 1 => calls[i].data = ExecuteBytes
                              /\ i = n + 2 => calls[i].kind = "release"

\* C10 witness: static was given two different colours; the call went through
\* with one warning
Wit_C10_TwoColorsOneWarning ==
    /\ SetColorDone /\ result = "ok" /\ warnings = 1
    /\ args.mode = "static" /\ Len(args.colors) = 2
    /\ args.colors[1] # args.colors[2]

====
